---- MODULE Spec2Model ----
(***************************************************************************)
(* Model of the cancellable, validated echo pipeline of                    *)
(* rust-multiplatform-template-lib (src/src/template.rs, src/src/error.rs).*)
(*                                                                         *)
(* Strings are kept run-length encoded: a string is a sequence of runs     *)
(* [ch, n] (n >= 1 copies of the character ch, adjacent runs of different  *)
(* characters), so that inputs of 1,000,001 bytes are ordinary values.     *)
(* Every character has its UTF-8 width, and str::len, str::contains,       *)
(* is_char_boundary and byte slicing are computed on bytes as in Rust.     *)
(*                                                                         *)
(* A call of an async fn is a future: it is created (start), polled up to  *)
(* yield_now (first checkpoint), polled again (second checkpoint), and     *)
(* then runs validate_and_echo_internal.  cancel() is a store to an atomic *)
(* flag and may be issued by any thread between any two of these steps.    *)
(***************************************************************************)
EXTENDS Integers, Sequences, FiniteSets, TLC

(* ------------------------------ bounds -------------------------------- *)
NumCalls == 2
NumTokens == 2
MaxRuns == 2
NumClones == 2
MaxCancels == 2

(* -------------------------- program constants ------------------------- *)
MAX_INPUT_SIZE == 1000000
PreviewLen == 50

Calls == 1..NumCalls
Tokens == 1..NumTokens
\* the AtomicBool cells: one per token made by new(), the rest unused
Flags == 1..(NumTokens + NumClones)
\* the CancellationToken values: the tokens made by new() and their clones
Handles == 1..(NumTokens + NumClones)
\* Option::None of a token argument (tokens are numbered from 1)
None == 0
\* Option::None of EchoResult.hash
NoHash == "None"

(* ------------------------------ strings ------------------------------- *)
\* UTF-8 width in bytes of the characters used: 'a', '.', U+0000 are one
\* byte, "e2" stands for a two-byte character such as U+00E9.
Width(ch) == IF ch = "e2" THEN 2 ELSE 1

InputChars == {"a", "NUL", "e2"}
RunCounts == {1, PreviewLen - 1, PreviewLen, MAX_INPUT_SIZE}
Runs == [ch : InputChars, n : RunCounts]

Canonical(s) == \A i \in 1..(Len(s) - 1) : s[i].ch # s[i + 1].ch

\* every string of at most MaxRuns runs
Inputs == {s \in UNION {[1..k -> Runs] : k \in 0..MaxRuns} : Canonical(s)}

\* str::len - the length in BYTES
RECURSIVE len(_)
len(s) == IF s = <<>> THEN 0
          ELSE Head(s).n * Width(Head(s).ch) + len(Tail(s))

\* s.chars().count() - the length in characters
RECURSIVE chars_count(_)
chars_count(s) == IF s = <<>> THEN 0 ELSE Head(s).n + chars_count(Tail(s))

\* str::is_empty
is_empty(s) == len(s) = 0

\* input.contains('\0')
contains_nul(s) == \E i \in 1..Len(s) : s[i].ch = "NUL"

\* str::is_char_boundary(idx): 0 and len are boundaries, beyond len is not,
\* inside the string the byte at idx must start a character
RECURSIVE is_char_boundary(_, _)
is_char_boundary(s, idx) ==
    IF idx = 0 THEN TRUE
    ELSE IF s = <<>> THEN FALSE
    ELSE LET w == Width(Head(s).ch)
             b == Head(s).n * w
         IN  IF b <= idx THEN is_char_boundary(Tail(s), idx - b)
             ELSE idx % w = 0

\* &s[..idx] for idx on a character boundary
RECURSIVE slice_to(_, _)
slice_to(s, idx) ==
    IF idx = 0 \/ s = <<>> THEN <<>>
    ELSE LET w == Width(Head(s).ch)
             b == Head(s).n * w
         IN  IF b <= idx THEN <<Head(s)>> \o slice_to(Tail(s), idx - b)
             ELSE <<[ch |-> Head(s).ch, n |-> idx \div w]>>

\* the first k characters of s
RECURSIVE take_chars(_, _)
take_chars(s, k) ==
    IF k = 0 \/ s = <<>> THEN <<>>
    ELSE IF Head(s).n <= k THEN <<Head(s)>> \o take_chars(Tail(s), k - Head(s).n)
    ELSE <<[ch |-> Head(s).ch, n |-> k]>>

\* String concatenation (format!("{}{}", s, t))
push_str(s, t) ==
    IF s = <<>> THEN t
    ELSE IF t = <<>> THEN s
    ELSE IF s[Len(s)].ch = t[1].ch
         THEN SubSeq(s, 1, Len(s) - 1)
              \o <<[ch |-> t[1].ch, n |-> s[Len(s)].n + t[1].n]>>
              \o Tail(t)
         ELSE s \o t

Ellipsis == <<[ch |-> ".", n |-> 3]>>

(* --------------------------- integer widths --------------------------- *)
\* n mod 2^32, written so that no intermediate value leaves the range of
\* the values n the checker can represent
Wrap32(n) == ((n \div 65536) % 65536) * 65536 + (n % 65536)

\* "as u32"
AsU32(n) == Wrap32(n)

\* "as usize" / "as u64": usize has at least 32 bits on every target; the
\* two widths agree on every value below 2^32
AsUsize(n) == Wrap32(n)
AsU64(n) == n

(* ------------------------------- error.rs ----------------------------- *)
HashMod == 65536

ByteCode(ch) == IF ch = "NUL" THEN 0
                ELSE IF ch = "a" THEN 97
                ELSE IF ch = "." THEN 46
                ELSE 195

\* DefaultHasher::new() has fixed keys; str::hash feeds it the bytes of the
\* string and then 0xff.  SipHash itself is abstracted to a deterministic
\* fold of that byte stream into HashMod values.
RECURSIVE hash_fold(_, _)
hash_fold(h, s) ==
    IF s = <<>> THEN (h * 31 + 255) % HashMod
    ELSE hash_fold((h * 31 + ByteCode(Head(s).ch) * (Head(s).n % HashMod)
                    + Width(Head(s).ch)) % HashMod, Tail(s))

calculate_hash(input) == hash_fold(0, input)

HexDigits == <<"0", "1", "2", "3", "4", "5", "6", "7",
               "8", "9", "a", "b", "c", "d", "e", "f">>

\* format!("{:x}", hash): lower-case hexadecimal, no leading zeros, "0" for 0
RECURSIVE format_hex(_)
format_hex(n) == IF n < 16 THEN <<HexDigits[n + 1]>>
                 ELSE format_hex(n \div 16) \o <<HexDigits[(n % 16) + 1]>>

Panic == [tag |-> "Panic"]

\* size and max exchanged
input_too_large_swapped(size, max, input) ==
    [tag |-> "InputTooLarge",
     size |-> AsU64(max),
     max |-> AsU64(size),
     hash |-> format_hex(calculate_hash(input))]

input_too_large(size, max, input) ==
    [tag |-> "InputTooLarge",
     size |-> AsU64(size),
     max |-> AsU64(max),
     hash |-> format_hex(calculate_hash(input))]

\* the preview not cut: the whole input
invalid_input_uncut(error_message, input) ==
    [tag |-> "InvalidInput",
     error_message |-> error_message,
     input_preview |-> input]

\* invalid_input(error_message, Some(input)); &s[..50] panics when byte 50
\* is not a character boundary
invalid_input(error_message, input) ==
    IF len(input) > PreviewLen
    THEN IF is_char_boundary(input, PreviewLen)
         THEN [tag |-> "InvalidInput",
               error_message |-> error_message,
               input_preview |-> push_str(slice_to(input, PreviewLen), Ellipsis)]
         ELSE Panic
    ELSE [tag |-> "InvalidInput",
          error_message |-> error_message,
          input_preview |-> input]

operation_cancelled(operation) ==
    [tag |-> "OperationCancelled", operation |-> operation]

(* ------------------------------ template.rs --------------------------- *)
Clock == {1, 2}

EchoResult_new(text, now) ==
    [text |-> text, length |-> AsU32(len(text)), timestamp |-> now, hash |-> NoHash]

\* Ok(None), Ok(Some(r)) and the Ok(()) of validate_input
OkNone == [tag |-> "OkNone"]
OkSome(r) == [tag |-> "OkSome", value |-> r]
OkUnit == [tag |-> "OkUnit"]

validate_input(input) ==
    IF contains_nul(input)
    THEN invalid_input("Input contains null bytes", input)
    ELSE IF ~is_empty(input) /\ ~is_char_boundary(input, len(input))
    THEN invalid_input("Invalid UTF-8 sequence", input)
    ELSE OkUnit

\* the test for the empty input left out
validate_and_echo_internal_keeps_empty(input, max_size, enable_validation, now) ==
    LET input_size == len(input)
        checked == IF enable_validation THEN validate_input(input) ELSE OkUnit
    IN  IF input_size > max_size
        THEN input_too_large(input_size, max_size, input)
        ELSE IF checked # OkUnit THEN checked
        ELSE OkSome(EchoResult_new(input, now))

\* the content validated before the size
validate_and_echo_internal_content_first(input, max_size, enable_validation, now) ==
    LET input_size == len(input)
        checked == IF enable_validation THEN validate_input(input) ELSE OkUnit
    IN  IF checked # OkUnit THEN checked
        ELSE IF input_size > max_size
        THEN input_too_large(input_size, max_size, input)
        ELSE IF is_empty(input) THEN OkNone
        ELSE OkSome(EchoResult_new(input, now))

\* the size test written >= instead of >
validate_and_echo_internal_ge(input, max_size, enable_validation, now) ==
    LET input_size == len(input)
        checked == IF enable_validation THEN validate_input(input) ELSE OkUnit
    IN  IF input_size >= max_size
        THEN input_too_large(input_size, max_size, input)
        ELSE IF checked # OkUnit THEN checked
        ELSE IF is_empty(input) THEN OkNone
        ELSE OkSome(EchoResult_new(input, now))

validate_and_echo_internal(input, max_size, enable_validation, now) ==
    LET input_size == len(input)
        checked == IF enable_validation THEN validate_input(input) ELSE OkUnit
    IN  IF input_size > max_size
        THEN input_too_large(input_size, max_size, input)
        ELSE IF checked # OkUnit THEN checked
        ELSE IF is_empty(input) THEN OkNone
        ELSE OkSome(EchoResult_new(input, now))

ConfigSizes == {0, 100, MAX_INPUT_SIZE, 2 * MAX_INPUT_SIZE}

\* TemplateConfig::new(max_input_size, enable_validation)
TemplateConfig == [max_input_size : ConfigSizes, enable_validation : BOOLEAN]

\* echo takes no configuration
NoConfig == [max_input_size |-> 0, enable_validation |-> FALSE]

\* cancelled: CancellationToken.cancelled, per token
\* pc:        per call "idle", "start", "suspended", "validating", "done"
\* args:      per call, the arguments the future captured
\* result:    per call, what the future returned
\* issued:    per call, where the call stood when cancel() first hit its token
\* handles:   per CancellationToken value, the flag its Arc points to, the
\*            token it was cloned from, and whether it was cloned after cancel()
\* cancels:   the number of cancel() calls made so far (up to MaxCancels)
VARIABLES cancelled, pc, args, result, issued, handles, cancels

vars == <<cancelled, pc, args, result, issued, handles, cancels>>

NoHandle == [flag |-> None, origin |-> None, late |-> FALSE]

NoArgs == [kind |-> "none", config |-> NoConfig, input |-> <<>>, token |-> None]
NoResult == [tag |-> "NoResult"]

\* CancellationToken::new()
Init ==
    /\ cancelled = [f \in Flags |-> FALSE]
    /\ handles = [h \in Handles |->
                    IF h \in Tokens THEN [flag |-> h, origin |-> h, late |-> FALSE]
                    ELSE NoHandle]
    /\ cancels = 0
    /\ pc = [c \in Calls |-> "idle"]
    /\ args = [c \in Calls |-> NoArgs]
    /\ result = [c \in Calls |-> NoResult]
    /\ issued = [c \in Calls |-> "never"]

\* one flag for all the tokens: the load sees a cancel() of any of them
is_cancelled_global(t) == \E f \in Flags : cancelled[f]

\* the load negated
is_cancelled_negated(t) == ~cancelled[t]

\* CancellationToken::is_cancelled
is_cancelled(t) == cancelled[t]

\* the store written as a toggle of the flag
cancel_toggling(t) ==
    /\ cancelled' = [cancelled EXCEPT ![t] = ~cancelled[t]]
    /\ issued' = [c \in Calls |->
                    IF /\ pc[c] \in {"start", "suspended", "validating"}
                       /\ args[c].token = t
                       /\ issued[c] = "never"
                    THEN pc[c] ELSE issued[c]]
    /\ cancels' = IF cancels < MaxCancels THEN cancels + 1 ELSE cancels
    /\ UNCHANGED <<pc, args, result, handles>>

\* CancellationToken::cancel
cancel(t) ==
    /\ cancelled' = [cancelled EXCEPT ![t] = TRUE]
    /\ issued' = [c \in Calls |->
                    IF /\ pc[c] \in {"start", "suspended", "validating"}
                       /\ args[c].token = t
                       /\ issued[c] = "never"
                    THEN pc[c] ELSE issued[c]]
    /\ cancels' = IF cancels < MaxCancels THEN cancels + 1 ELSE cancels
    /\ UNCHANGED <<pc, args, result, handles>>

\* creating the future: the arguments are captured, nothing has run yet
Start(c, kind, config, input, token) ==
    /\ pc[c] = "idle"
    /\ pc' = [pc EXCEPT ![c] = "start"]
    /\ args' = [args EXCEPT ![c] = [kind |-> kind, config |-> config,
                                    input |-> input, token |-> token]]
    /\ issued' = [issued EXCEPT ![c] =
                    IF token # None /\ cancelled[token] THEN "before" ELSE "never"]
    /\ UNCHANGED <<cancelled, result, handles, cancels>>

Finish(c, r) ==
    /\ pc' = [pc EXCEPT ![c] = "done"]
    /\ result' = [result EXCEPT ![c] = r]
    /\ UNCHANGED <<cancelled, args, issued, handles, cancels>>

Goto(c, label) ==
    /\ pc' = [pc EXCEPT ![c] = label]
    /\ UNCHANGED <<cancelled, args, result, issued, handles, cancels>>

(* echo(input, token) *)
echo_start(c, input, token) == Start(c, "echo", NoConfig, input, token)

echo_check1(c) ==
    /\ pc[c] = "start" /\ args[c].kind = "echo"
    /\ IF args[c].token # None /\ is_cancelled(args[c].token)
       THEN Finish(c, operation_cancelled("echo"))
       ELSE Goto(c, "suspended")

\* the second checkpoint left out
echo_check2_skipped(c) ==
    /\ pc[c] = "suspended" /\ args[c].kind = "echo"
    /\ Goto(c, "validating")

\* the second checkpoint consuming the flag it observes (swap(false))
echo_check2_consuming(c) ==
    /\ pc[c] = "suspended" /\ args[c].kind = "echo"
    /\ IF args[c].token # None /\ is_cancelled(args[c].token)
       THEN /\ pc' = [pc EXCEPT ![c] = "done"]
            /\ result' = [result EXCEPT ![c] = operation_cancelled("echo")]
            /\ cancelled' = [cancelled EXCEPT ![args[c].token] = FALSE]
            /\ UNCHANGED <<args, issued, handles, cancels>>
       ELSE Goto(c, "validating")

echo_check2(c) ==
    /\ pc[c] = "suspended" /\ args[c].kind = "echo"
    /\ IF args[c].token # None /\ is_cancelled(args[c].token)
       THEN Finish(c, operation_cancelled("echo"))
       ELSE Goto(c, "validating")

\* the flag read once more before returning
echo_finish_rechecking(c, now) ==
    /\ pc[c] = "validating" /\ args[c].kind = "echo"
    /\ IF args[c].token # None /\ is_cancelled(args[c].token)
       THEN Finish(c, operation_cancelled("echo"))
       ELSE Finish(c, validate_and_echo_internal(args[c].input, MAX_INPUT_SIZE,
                                                 TRUE, now))

echo_finish(c, now) ==
    /\ pc[c] = "validating" /\ args[c].kind = "echo"
    /\ Finish(c, validate_and_echo_internal(args[c].input, MAX_INPUT_SIZE, TRUE, now))

(* TemplateConfig::validate_and_echo(&self, input, token) *)
validate_and_echo_start(c, config, input, token) ==
    Start(c, "validate_and_echo", config, input, token)

validate_and_echo_check1(c) ==
    /\ pc[c] = "start" /\ args[c].kind = "validate_and_echo"
    /\ IF args[c].token # None /\ is_cancelled(args[c].token)
       THEN Finish(c, operation_cancelled("validate_and_echo"))
       ELSE Goto(c, "suspended")

\* the second checkpoint left out
validate_and_echo_check2_skipped(c) ==
    /\ pc[c] = "suspended" /\ args[c].kind = "validate_and_echo"
    /\ Goto(c, "validating")

validate_and_echo_check2(c) ==
    /\ pc[c] = "suspended" /\ args[c].kind = "validate_and_echo"
    /\ IF args[c].token # None /\ is_cancelled(args[c].token)
       THEN Finish(c, operation_cancelled("validate_and_echo"))
       ELSE Goto(c, "validating")

\* enable_validation ignored: the content always validated
validate_and_echo_finish_validating(c, now) ==
    /\ pc[c] = "validating" /\ args[c].kind = "validate_and_echo"
    /\ Finish(c, validate_and_echo_internal(args[c].input,
                     AsUsize(args[c].config.max_input_size), TRUE, now))

\* the library-wide limit used in place of the configuration's
validate_and_echo_finish_default(c, now) ==
    /\ pc[c] = "validating" /\ args[c].kind = "validate_and_echo"
    /\ Finish(c, validate_and_echo_internal(args[c].input, MAX_INPUT_SIZE,
                     args[c].config.enable_validation, now))

validate_and_echo_finish(c, now) ==
    /\ pc[c] = "validating" /\ args[c].kind = "validate_and_echo"
    /\ Finish(c, validate_and_echo_internal(args[c].input,
                     AsUsize(args[c].config.max_input_size),
                     args[c].config.enable_validation, now))

(* #[derive(Clone)] on CancellationToken *)
\* a clone that gets a flag of its own, initialised from the original's
token_clone_copying(h, h2) ==
    /\ handles[h].flag # None
    /\ handles[h2].flag = None
    /\ handles' = [handles EXCEPT ![h2] =
                     [flag |-> h2, origin |-> handles[h].origin,
                      late |-> cancelled[handles[h].flag]]]
    /\ cancelled' = [cancelled EXCEPT ![h2] = cancelled[handles[h].flag]]
    /\ UNCHANGED <<pc, args, result, issued, cancels>>

\* h2 = h.clone(): the derived Clone clones the Arc, not the AtomicBool
token_clone(h, h2) ==
    /\ handles[h].flag # None
    /\ handles[h2].flag = None
    /\ handles' = [handles EXCEPT ![h2] =
                     [flag |-> handles[h].flag, origin |-> handles[h].origin,
                      late |-> cancelled[handles[h].flag]]]
    /\ UNCHANGED <<cancelled, pc, args, result, issued, cancels>>

(* -------------- concurrent echo calls sharing tokens: Spec ------------ *)
\* inputs of the concurrent calls: empty, valid, null byte, oversized,
\* oversized with a null byte
SharedInputs ==
    { <<>>,
      <<[ch |-> "a", n |-> 1]>>,
      <<[ch |-> "NUL", n |-> 1]>>,
      <<[ch |-> "e2", n |-> MAX_INPUT_SIZE]>>,
      <<[ch |-> "a", n |-> MAX_INPUT_SIZE], [ch |-> "NUL", n |-> 1]>> }

TokenArgs == Tokens \cup {None}

Next ==
    \/ \E t \in Tokens : cancel(t)
    \/ \E c \in Calls :
          /\ pc[c] = "idle"
          /\ \E i \in SharedInputs, t \in TokenArgs : echo_start(c, i, t)
    \/ \E c \in Calls : echo_check1(c)
    \/ \E c \in Calls : echo_check2(c)
    \/ \E c \in Calls, now \in Clock : echo_finish(c, now)

Spec == Init /\ [][Next]_vars

(* ------ an echo call beside a validate_and_echo call: SpecPair -------- *)
DefaultConfig == [max_input_size |-> MAX_INPUT_SIZE, enable_validation |-> TRUE]

PairConfigs == {DefaultConfig, [max_input_size |-> 100, enable_validation |-> FALSE]}

NextPair ==
    \/ \E t \in Tokens : cancel(t)
    \/ /\ pc[1] = "idle"
       /\ \E i \in SharedInputs, t \in TokenArgs : echo_start(1, i, t)
    \/ echo_check1(1)
    \/ echo_check2(1)
    \/ \E now \in Clock : echo_finish(1, now)
    \/ /\ pc[2] = "idle"
       /\ \E k \in PairConfigs, i \in SharedInputs, t \in TokenArgs :
             validate_and_echo_start(2, k, i, t)
    \/ validate_and_echo_check1(2)
    \/ validate_and_echo_check2(2)
    \/ \E now \in Clock : validate_and_echo_finish(2, now)

SpecPair == Init /\ [][NextPair]_vars

(* ------------- one call, every input and config: SpecOne -------------- *)
NextOne ==
    \/ \E t \in Tokens : cancel(t)
    \/ /\ pc[1] = "idle"
       /\ \E i \in Inputs, t \in TokenArgs : echo_start(1, i, t)
    \/ echo_check1(1)
    \/ echo_check2(1)
    \/ \E now \in Clock : echo_finish(1, now)
    \/ /\ pc[1] = "idle"
       /\ \E k \in TemplateConfig, i \in Inputs, t \in TokenArgs :
             validate_and_echo_start(1, k, i, t)
    \/ validate_and_echo_check1(1)
    \/ validate_and_echo_check2(1)
    \/ \E now \in Clock : validate_and_echo_finish(1, now)

SpecOne == Init /\ [][NextOne]_vars

(* --- one call that the scheduler resumes after its yield: FairOne ------ *)
\* the steps a task makes when the runtime polls it
Poll(c) ==
    \/ echo_check1(c)
    \/ echo_check2(c)
    \/ \E now \in Clock : echo_finish(c, now)
    \/ validate_and_echo_check1(c)
    \/ validate_and_echo_check2(c)
    \/ \E now \in Clock : validate_and_echo_finish(c, now)

FairOne == Init /\ [][NextOne]_vars /\ WF_vars(Poll(1))

(* ----- clones of the tokens, cancel() through any of them: SpecTokens -- *)
TokenInputs == { <<[ch |-> "a", n |-> 1]>>, <<[ch |-> "NUL", n |-> 1]>> }

Allocated == {h \in Handles : handles[h].flag # None}

NextTokens ==
    \/ \E h \in Allocated, h2 \in Handles \ Allocated : token_clone(h, h2)
    \/ \E h \in Allocated : cancel(handles[h].flag)
    \/ /\ pc[1] = "idle"
       /\ \E i \in TokenInputs, h \in Allocated : echo_start(1, i, handles[h].flag)
    \/ echo_check1(1)
    \/ echo_check2(1)
    \/ \E now \in Clock : echo_finish(1, now)

SpecTokens == Init /\ [][NextTokens]_vars

(* ---- tasks on one thread, switched only at an await: SpecCoop -------- *)
\* a second yield_now().await after the second checkpoint
InPoll_second_yield(c) == pc[c] = "start"

\* the future of call c is being polled: `echo(..).await` has entered the
\* body and not yet reached yield_now().await, or it was resumed after the
\* yield and has not yet returned
InPoll(c) == pc[c] \in {"start", "validating"}

\* a single-threaded cooperative scheduler: a task is switched out only
\* when its poll returns, so task x takes a step only while no other task
\* is inside a poll (x = None: a task that is not one of the calls)
MayRun(x) == \A d \in Calls \ {x} : ~InPoll(d)

\* the calls are awaited where they are made, each in a task of its own;
\* cancel() is a step of another task
NextCoop ==
    \/ /\ MayRun(None)
       /\ \E t \in Tokens : cancel(t)
    \/ /\ pc[1] = "idle" /\ MayRun(1)
       /\ \E i \in SharedInputs, t \in TokenArgs : echo_start(1, i, t)
    \/ MayRun(1) /\ echo_check1(1)
    \/ MayRun(1) /\ echo_check2(1)
    \/ MayRun(1) /\ \E now \in Clock : echo_finish(1, now)
    \/ /\ pc[2] = "idle" /\ MayRun(2)
       /\ \E k \in PairConfigs, i \in SharedInputs, t \in TokenArgs :
             validate_and_echo_start(2, k, i, t)
    \/ MayRun(2) /\ validate_and_echo_check1(2)
    \/ MayRun(2) /\ validate_and_echo_check2(2)
    \/ MayRun(2) /\ \E now \in Clock : validate_and_echo_finish(2, now)

SpecCoop == Init /\ [][NextCoop]_vars

(* ------- sizes beyond 2^31: the call on 64-bit values, SpecWide ------- *)
\* An unsigned 64-bit value is kept as its four 16-bit digits, least
\* significant first, so that lengths and limits of 2^32 and more are
\* ordinary values and "as u32" / "as usize" drop real digits.
Base == 65536

\* the 64-bit value of a number below 2^31
U64(n) == <<n % Base, n \div Base, 0, 0>>

\* u64::MAX
U64_MAX == <<Base - 1, Base - 1, Base - 1, Base - 1>>

\* a + b (mod 2^64)
U64_add(a, b) ==
    LET s1 == a[1] + b[1]
        s2 == a[2] + b[2] + (s1 \div Base)
        s3 == a[3] + b[3] + (s2 \div Base)
        s4 == a[4] + b[4] + (s3 \div Base)
    IN  <<s1 % Base, s2 % Base, s3 % Base, s4 % Base>>

\* a - b for a >= b
U64_sub(a, b) ==
    LET t1 == a[1] - b[1]
        t2 == a[2] - b[2] - (IF t1 < 0 THEN 1 ELSE 0)
        t3 == a[3] - b[3] - (IF t2 < 0 THEN 1 ELSE 0)
        t4 == a[4] - b[4] - (IF t3 < 0 THEN 1 ELSE 0)
    IN  <<t1 % Base, t2 % Base, t3 % Base, t4 % Base>>

\* a * k (mod 2^64) for a small factor k
U64_times(a, k) ==
    LET p1 == a[1] * k
        p2 == a[2] * k + (p1 \div Base)
        p3 == a[3] * k + (p2 \div Base)
        p4 == a[4] * k + (p3 \div Base)
    IN  <<p1 % Base, p2 % Base, p3 % Base, p4 % Base>>

\* a < b
U64_lt(a, b) ==
    \E i \in 1..4 : a[i] < b[i] /\ \A j \in (i + 1)..4 : a[j] = b[j]

\* "as u32" of a 64-bit value: the low 32 bits
U64_as_u32(a) == <<a[1], a[2], 0, 0>>

\* the pointer widths of the targets the crate is built for
UsizeBits == {32, 64}

\* "as usize" of a u64 on a target with the given pointer width
U64_as_usize(bits, a) == IF bits = 32 THEN U64_as_u32(a) ELSE a

\* isize::MAX + 1 on a 32-bit target: no allocation is that long
TooLongFor32 == <<0, Base \div 2, 0, 0>>

\* str::len on 64-bit values
RECURSIVE len64(_)
len64(s) == IF s = <<>> THEN U64(0)
            ELSE U64_add(U64_times(U64(Head(s).n), Width(Head(s).ch)),
                         len64(Tail(s)))

\* str::is_char_boundary(idx) for a 64-bit idx
RECURSIVE is_char_boundary64(_, _)
is_char_boundary64(s, idx) ==
    IF idx = U64(0) THEN TRUE
    ELSE IF s = <<>> THEN FALSE
    ELSE LET w == Width(Head(s).ch)
             b == U64_times(U64(Head(s).n), w)
         IN  IF ~U64_lt(idx, b) THEN is_char_boundary64(Tail(s), U64_sub(idx, b))
             ELSE idx[1] % w = 0

\* EchoResult::new: length = text.len() as u32
EchoResult_new64(text, now) ==
    [text |-> text, length |-> U64_as_u32(len64(text)), timestamp |-> now,
     hash |-> NoHash]

validate_input64(input) ==
    IF contains_nul(input)
    THEN invalid_input("Input contains null bytes", input)
    ELSE IF len64(input) # U64(0) /\ ~is_char_boundary64(input, len64(input))
    THEN invalid_input("Invalid UTF-8 sequence", input)
    ELSE OkUnit

\* validate_and_echo_internal(input, max_size: usize, enable_validation)
validate_and_echo_internal64(input, max_size, enable_validation, now) ==
    LET input_size == len64(input)
        checked == IF enable_validation THEN validate_input64(input) ELSE OkUnit
    IN  IF U64_lt(max_size, input_size)
        THEN input_too_large(input_size, max_size, input)
        ELSE IF checked # OkUnit THEN checked
        ELSE IF input_size = U64(0) THEN OkNone
        ELSE OkSome(EchoResult_new64(input, now))

\* the last step of validate_and_echo on a target of the given pointer
\* width: self.max_input_size as usize
validate_and_echo_finish64(c, bits, now) ==
    /\ pc[c] = "validating" /\ args[c].kind = "validate_and_echo"
    /\ bits = 32 => U64_lt(len64(args[c].input), TooLongFor32)
    /\ Finish(c, validate_and_echo_internal64(args[c].input,
                     U64_as_usize(bits, args[c].config.max_input_size),
                     args[c].config.enable_validation, now))

\* 2^30 characters in one run
Huge == 1073741824

\* 101 bytes; 2^31 + 1 bytes; 2^32 + 1 bytes; a null byte before 2^30 bytes
WideInputs ==
    { <<>>,
      <<[ch |-> "a", n |-> 101]>>,
      <<[ch |-> "e2", n |-> Huge], [ch |-> "a", n |-> 1]>>,
      <<[ch |-> "e2", n |-> Huge], [ch |-> "a", n |-> 1], [ch |-> "e2", n |-> Huge]>>,
      <<[ch |-> "NUL", n |-> 1], [ch |-> "a", n |-> Huge]>> }

\* 100, 2^32, 2^32 + 100, u64::MAX
WideSizes == {U64(100), <<0, 0, 1, 0>>, <<100, 0, 1, 0>>, U64_MAX}

WideConfig == [max_input_size : WideSizes, enable_validation : BOOLEAN]

NextWide ==
    \/ \E t \in Tokens : cancel(t)
    \/ /\ pc[1] = "idle"
       /\ \E k \in WideConfig, i \in WideInputs, t \in TokenArgs :
             validate_and_echo_start(1, k, i, t)
    \/ validate_and_echo_check1(1)
    \/ validate_and_echo_check2(1)
    \/ \E bits \in UsizeBits, now \in Clock : validate_and_echo_finish64(1, bits, now)

SpecWide == Init /\ [][NextWide]_vars

(* ============================== claims ================================ *)
Done(c) == pc[c] = "done"
IsCancelledError(r) == r.tag = "OperationCancelled"
CancelledAs(operation) == [tag |-> "OperationCancelled", operation |-> operation]

\* the size limit a call is subject to
LimitOf(c) == IF args[c].kind = "echo" THEN MAX_INPUT_SIZE
              ELSE args[c].config.max_input_size
\* whether the call validates content
ValidatesContent(c) == args[c].kind = "echo" \/ args[c].config.enable_validation
\* the call's token is absent or was never cancelled
NeverCancelled(c) == args[c].token = None \/ ~cancelled[args[c].token]
\* cancel() reached the call's token before its second checkpoint read
BeforeSecondRead == {"before", "start", "suspended"}

\* C1: an echo call whose token was already cancelled when the call was
\* made never gets past its first checkpoint and fails with
\* OperationCancelled{operation = "echo"}, whatever the input is.
C1_CancelledBeforeCall ==
    \A c \in Calls :
        (args[c].kind = "echo" /\ issued[c] = "before")
        => /\ pc[c] \in {"start", "done"}
           /\ Done(c) => result[c] = CancelledAs("echo")

\* an oversized input with a null byte, cancelled before the call
C1_Witness ==
    \E c \in Calls :
        /\ Done(c) /\ args[c].kind = "echo" /\ issued[c] = "before"
        /\ len(args[c].input) > MAX_INPUT_SIZE /\ contains_nul(args[c].input)
        /\ result[c] = CancelledAs("echo")

\* C2: when cancel() hits the token while an echo call is suspended at its
\* yield point, the call never enters validation and fails with
\* OperationCancelled{operation = "echo"}.
C2_CancelledWhileSuspended ==
    \A c \in Calls :
        (args[c].kind = "echo" /\ issued[c] = "suspended")
        => /\ pc[c] \in {"suspended", "done"}
           /\ Done(c) => result[c] = CancelledAs("echo")

C2_Witness ==
    \E c \in Calls :
        /\ Done(c) /\ args[c].kind = "echo" /\ issued[c] = "suspended"
        /\ contains_nul(args[c].input)
        /\ result[c] = CancelledAs("echo")

\* C3: with the token absent or never cancelled, an input of at most
\* max_size bytes without a null byte succeeds: None exactly for the empty
\* input, otherwise an outcome whose text is the input and whose length is
\* the input's byte length.
C3_ValidInputEchoed ==
    \A c \in Calls :
        (/\ Done(c) /\ NeverCancelled(c)
         /\ len(args[c].input) <= LimitOf(c)
         /\ ~contains_nul(args[c].input))
        => /\ result[c].tag \in {"OkNone", "OkSome"}
           /\ (result[c].tag = "OkNone") <=> (args[c].input = <<>>)
           /\ result[c].tag = "OkSome"
                => /\ result[c].value.text = args[c].input
                   /\ result[c].value.length = len(args[c].input)

\* an input of exactly max_size bytes is accepted
C3_Witness ==
    \E c \in Calls :
        /\ Done(c) /\ NeverCancelled(c) /\ args[c].kind = "echo"
        /\ len(args[c].input) = MAX_INPUT_SIZE
        /\ result[c].tag = "OkSome"
        /\ result[c].value.length = MAX_INPUT_SIZE

\* C4: with no cancellation observed, an input longer than max_size bytes
\* fails with InputTooLarge carrying size = byte length and max = max_size
\* and a non-empty hash, and two calls on the same input carry the same hash.
C4_TooLarge ==
    \A c \in Calls :
        (/\ Done(c) /\ ~IsCancelledError(result[c])
         /\ len(args[c].input) > LimitOf(c))
        => /\ result[c].tag = "InputTooLarge"
           /\ result[c].size = len(args[c].input)
           /\ result[c].max = LimitOf(c)
           /\ result[c].hash # <<>>
           /\ \A d \in Calls :
                (/\ Done(d) /\ result[d].tag = "InputTooLarge"
                 /\ args[d].input = args[c].input)
                => result[d].hash = result[c].hash

\* two finished calls on the same oversized input
C4_Witness ==
    \E c, d \in Calls :
        /\ c # d /\ Done(c) /\ Done(d)
        /\ args[c].input = args[d].input
        /\ result[c].tag = "InputTooLarge" /\ result[d].tag = "InputTooLarge"
        /\ result[c].size > MAX_INPUT_SIZE

\* C5: with content validation on and no cancellation observed, an input
\* within the size limit that contains a null byte fails with InvalidInput
\* whose message mentions null bytes and whose preview is the first 50
\* characters plus "..." when the input is longer than 50 characters, and
\* the whole input otherwise.
C5_NullBytePreview ==
    \A c \in Calls :
        (/\ Done(c) /\ ~IsCancelledError(result[c])
         /\ ValidatesContent(c)
         /\ len(args[c].input) <= LimitOf(c)
         /\ contains_nul(args[c].input))
        => /\ result[c].tag = "InvalidInput"
           /\ result[c].error_message = "Input contains null bytes"
           /\ result[c].input_preview =
                IF chars_count(args[c].input) > PreviewLen
                THEN push_str(take_chars(args[c].input, PreviewLen), Ellipsis)
                ELSE args[c].input

\* the outcome with its timestamp blanked
WithoutTimestamp(r) ==
    IF r.tag = "OkSome" THEN [r EXCEPT !.value.timestamp = 0] ELSE r

\* the echo call (1) and the validate_and_echo call (2) finished on the same
\* input, the latter under the default configuration, and cancel() reached
\* each at the same point of its run
SameRun ==
    /\ Done(1) /\ Done(2)
    /\ args[1].kind = "echo" /\ args[2].kind = "validate_and_echo"
    /\ args[2].config = DefaultConfig
    /\ args[1].input = args[2].input
    /\ issued[1] = issued[2]

\* C6 as stated: under the default configuration validate_and_echo returns
\* exactly what echo returns (timestamp aside), for every input and every
\* timing of cancel().
C6_SameAsEcho == SameRun => WithoutTimestamp(result[2]) = WithoutTimestamp(result[1])

\* C6 amended: the same, except that a cancelled validate_and_echo names
\* the operation "validate_and_echo" where echo names "echo".
C6_SameAsEchoButOperation ==
    SameRun =>
        IF IsCancelledError(result[1]) \/ IsCancelledError(result[2])
        THEN /\ result[1] = CancelledAs("echo")
             /\ result[2] = CancelledAs("validate_and_echo")
        ELSE WithoutTimestamp(result[2]) = WithoutTimestamp(result[1])

\* both cancelled while suspended
C6_Witness ==
    /\ SameRun /\ issued[1] = "suspended"
    /\ IsCancelledError(result[1]) /\ IsCancelledError(result[2])

\* C7: validate_and_echo rejects an input as InputTooLarge exactly when its
\* byte length exceeds the configuration's max_input_size, and the error's
\* max is that max_input_size.
C7_ConfigLimit ==
    \A c \in Calls :
        (/\ Done(c) /\ args[c].kind = "validate_and_echo"
         /\ ~IsCancelledError(result[c]))
        => /\ (result[c].tag = "InputTooLarge")
                <=> (len(args[c].input) > args[c].config.max_input_size)
           /\ result[c].tag = "InputTooLarge"
                => result[c].max = args[c].config.max_input_size

\* a limit above the default accepts an input the default rejects
C7_Witness ==
    \E c \in Calls :
        /\ Done(c) /\ args[c].kind = "validate_and_echo"
        /\ args[c].config.max_input_size > MAX_INPUT_SIZE
        /\ len(args[c].input) > MAX_INPUT_SIZE
        /\ result[c].tag = "OkSome"

\* C8: a call that observes the cancellation leaves the flag set, and every
\* other call on the same token that cancel() reached before its second
\* checkpoint read fails with OperationCancelled as well.
C8_Broadcast ==
    \A c \in Calls :
        (Done(c) /\ IsCancelledError(result[c]))
        => /\ cancelled[args[c].token]
           /\ \A d \in Calls \ {c} :
                (/\ Done(d) /\ args[d].token = args[c].token
                 /\ issued[d] \in BeforeSecondRead)
                => IsCancelledError(result[d])

\* two calls cancelled by one cancel() on the token they share
C8_Witness ==
    \E c, d \in Calls :
        /\ c # d /\ Done(c) /\ Done(d)
        /\ args[c].token = args[d].token
        /\ issued[c] = "start" /\ issued[d] = "suspended"
        /\ IsCancelledError(result[c]) /\ IsCancelledError(result[d])

\* C9 as stated: a cancel() issued at any moment before the call is finished
\* makes the call end in OperationCancelled.
C9_NeverDropped ==
    \A c \in Calls :
        (Done(c) /\ issued[c] # "never") => IsCancelledError(result[c])

\* C9 amended: a cancel() issued before the call's second checkpoint read
\* makes the call end in OperationCancelled.
C9_HonouredBeforeSecondRead ==
    \A c \in Calls :
        (Done(c) /\ issued[c] \in BeforeSecondRead) => IsCancelledError(result[c])

\* cancel() issued between the creation of the call and its first checkpoint
C9_Witness ==
    \E c \in Calls :
        /\ Done(c) /\ issued[c] = "start"
        /\ args[c].kind = "validate_and_echo"
        /\ result[c] = CancelledAs("validate_and_echo")

\* C10: every token starts unset, and once is_cancelled() is true of a
\* token no step makes it false again.
C10_Monotonic ==
    /\ \A t \in Tokens : ~is_cancelled(t)
    /\ [][\A t \in Tokens : is_cancelled(t) => is_cancelled(t)']_vars

\* a call made and finished on a token after cancel(), the flag still set
C10_Witness ==
    \E c \in Calls :
        /\ Done(c) /\ issued[c] = "before"
        /\ is_cancelled(args[c].token)

\* the handles cloned, directly or not, from the same token as h
SameToken(h) == {g \in Allocated : handles[g].origin = handles[h].origin}

\* C11: the handles cloned from one token, before or after cancel(), all
\* answer is_cancelled() alike, and while a call holding one of them has not
\* been reached by cancel() none of them is cancelled.
C11_ClonesShareFlag ==
    /\ \A h \in Allocated : \A g \in SameToken(h) :
          is_cancelled(handles[g].flag) = is_cancelled(handles[h].flag)
    /\ \A c \in Calls : \A h \in Allocated :
          (/\ pc[c] \in {"start", "suspended", "validating"}
           /\ args[c].token = handles[h].flag
           /\ issued[c] = "never")
          => \A g \in SameToken(h) : ~is_cancelled(handles[g].flag)

\* one clone made before cancel() and one after it, both cancelled, and a
\* call on the token cancelled while it was suspended
C11_Witness ==
    \E h, g \in Allocated : \E c \in Calls :
        /\ h # g /\ g \in SameToken(h)
        /\ h \notin Tokens /\ g \notin Tokens
        /\ ~handles[h].late /\ handles[g].late
        /\ is_cancelled(handles[h].flag) /\ is_cancelled(handles[g].flag)
        /\ Done(c) /\ issued[c] = "suspended"
        /\ args[c].token = handles[h].flag
        /\ IsCancelledError(result[c])

\* C12: cancel() on a token that is already cancelled changes nothing: the
\* flag, every call and every result stay as they were after the first.
C12_CancelIdempotent ==
    [][\A t \in Tokens :
          (cancelled[t] /\ cancel(t))
          => UNCHANGED <<cancelled, pc, args, result, issued, handles>>]_vars

\* cancel() called twice on one token, the other never cancelled
C12_Witness ==
    /\ cancels >= 2
    /\ Cardinality({t \in Tokens : cancelled[t]}) = 1

\* no cancellation was observed by the finished call
NotCancelled(c) == Done(c) /\ ~IsCancelledError(result[c])

\* C13: with no cancellation observed the empty input gives Ok(None) under
\* every configuration, and no outcome has an empty text or length 0.
C13_EmptyGivesNone ==
    \A c \in Calls :
        /\ (NotCancelled(c) /\ args[c].input = <<>>) => result[c] = OkNone
        /\ (Done(c) /\ result[c].tag = "OkSome")
           => /\ result[c].value.text # <<>>
              /\ result[c].value.length # 0

\* the empty input under max_input_size = 0 without validation
C13_Witness ==
    \E c \in Calls :
        /\ Done(c) /\ args[c].kind = "validate_and_echo"
        /\ args[c].config = [max_input_size |-> 0, enable_validation |-> FALSE]
        /\ args[c].input = <<>>
        /\ result[c] = OkNone

\* C14 as stated: the preview of an InvalidInput error is at most 50
\* characters long.
C14_PreviewAtMost50 ==
    \A c \in Calls :
        (Done(c) /\ result[c].tag = "InvalidInput")
        => chars_count(result[c].input_preview) <= PreviewLen

\* C14 amended: the preview is at most 50 bytes of the input, followed by
\* the three characters "..." when the input is longer: at most 53
\* characters.
C14_PreviewAtMost53 ==
    \A c \in Calls :
        (Done(c) /\ result[c].tag = "InvalidInput")
        => /\ chars_count(result[c].input_preview) <= PreviewLen + 3
           /\ len(result[c].input_preview) <= PreviewLen + 3
           /\ len(args[c].input) <= PreviewLen
                => result[c].input_preview = args[c].input

\* a preview of 53 characters
C14_Witness ==
    \E c \in Calls :
        /\ Done(c) /\ result[c].tag = "InvalidInput"
        /\ chars_count(result[c].input_preview) = PreviewLen + 3

ReturnedTags == {"OkNone", "OkSome", "InputTooLarge", "InvalidInput",
                 "OperationCancelled"}

\* C15: every finished call has returned Ok(None), Ok(Some(outcome)),
\* InputTooLarge, InvalidInput or OperationCancelled; none has panicked.
C15_NoPanic ==
    \A c \in Calls : Done(c) => result[c].tag \in ReturnedTags

\* C16: with validation on and no cancellation observed, an input that is
\* both oversized and contains a null byte fails with InputTooLarge.
C16_SizeBeforeContent ==
    \A c \in Calls :
        (/\ NotCancelled(c) /\ ValidatesContent(c)
         /\ len(args[c].input) > LimitOf(c)
         /\ contains_nul(args[c].input))
        => result[c].tag = "InputTooLarge"

\* an oversized input whose preview could not even be cut (byte 50 inside a
\* character) is still reported as too large
C16_Witness ==
    \E c \in Calls :
        /\ NotCancelled(c) /\ ValidatesContent(c)
        /\ len(args[c].input) > LimitOf(c)
        /\ contains_nul(args[c].input)
        /\ ~is_char_boundary(args[c].input, PreviewLen)
        /\ result[c].tag = "InputTooLarge"

\* C17: with enable_validation = false a non-empty input within the limit
\* that contains a null byte is echoed, and no such call fails with
\* InvalidInput.
C17_ValidationOff ==
    \A c \in Calls :
        (/\ Done(c) /\ args[c].kind = "validate_and_echo"
         /\ ~args[c].config.enable_validation)
        => /\ result[c].tag # "InvalidInput"
           /\ (/\ ~IsCancelledError(result[c])
               /\ args[c].input # <<>>
               /\ len(args[c].input) <= args[c].config.max_input_size
               /\ contains_nul(args[c].input))
              => /\ result[c].tag = "OkSome"
                 /\ result[c].value.text = args[c].input

C17_Witness ==
    \E c \in Calls :
        /\ Done(c) /\ args[c].kind = "validate_and_echo"
        /\ ~args[c].config.enable_validation
        /\ contains_nul(args[c].input)
        /\ result[c].tag = "OkSome"
        /\ result[c].value.text = args[c].input

\* C18: a call whose two checkpoint reads were both false, and whose token
\* is cancelled after the second, is in validation or has returned the
\* result of the validation, never OperationCancelled.
C18_SnapshotNotRetroactive ==
    \A c \in Calls :
        issued[c] = "validating"
        => /\ pc[c] \in {"validating", "done"}
           /\ Done(c)
              => /\ ~IsCancelledError(result[c])
                 /\ WithoutTimestamp(result[c]) =
                      WithoutTimestamp(validate_and_echo_internal(
                          args[c].input, LimitOf(c), ValidatesContent(c), 0))

\* cancelled after the second checkpoint, the input echoed all the same
C18_Witness ==
    \E c \in Calls :
        /\ Done(c) /\ issued[c] = "validating"
        /\ args[c].kind = "echo"
        /\ cancelled[args[c].token]
        /\ result[c].tag = "OkSome"

\* C19: a step of a call leaves every flag as it was, the arguments a call
\* captured (its configuration among them) never change, and a step that
\* changes a flag changes nothing of any call.
C19_PipelineReadOnly ==
    [][/\ (\E c \in Calls : pc'[c] # pc[c]) => cancelled' = cancelled
       /\ \A c \in Calls : pc[c] # "idle" => args'[c] = args[c]
       /\ (cancelled' # cancelled)
          => (pc' = pc /\ args' = args /\ result' = result)]_vars

\* a cancelled call under a configuration of its own and a successful call,
\* the other token's flag still unset
C19_Witness ==
    /\ Done(1) /\ Done(2)
    /\ result[1].tag = "OkSome" /\ args[1].token # None
    /\ ~cancelled[args[1].token]
    /\ IsCancelledError(result[2])
    /\ args[2].config = [max_input_size |-> 100, enable_validation |-> FALSE]
    /\ cancelled[args[2].token]

\* the terminal states of the pipeline
IsDoneState(c) == result[c].tag \in {"OkNone", "OkSome"}
IsCancelledState(c) == result[c].tag = "OperationCancelled"
IsRejectedState(c) == result[c].tag \in {"InputTooLarge", "InvalidInput"}
InTerminalState(c) ==
    Done(c) /\ (IsDoneState(c) \/ IsCancelledState(c) \/ IsRejectedState(c))

\* C20: a call that the scheduler keeps resuming ends in Done, Cancelled or
\* Rejected, and once finished it takes no further step and keeps its
\* result.
C20_Terminates ==
    /\ \A c \in Calls : (pc[c] = "start") ~> InTerminalState(c)
    /\ [][\A c \in Calls :
            Done(c) => (pc'[c] = "done" /\ result'[c] = result[c])]_vars

\* C21: a call gives control back to the scheduler at one point only, after
\* its first checkpoint and before its second, and passes it once; on a
\* cooperative scheduler a call that has started and not yet reached its
\* first checkpoint, or has passed its second checkpoint and not yet
\* returned, is the only task that takes a step: no flag and no other call
\* changes before it moves on.
C21_YieldsOnce ==
    [][\A c \in Calls :
          /\ (pc'[c] = "suspended" /\ pc[c] # "suspended") => pc[c] = "start"
          /\ (pc'[c] = "validating" /\ pc[c] # "validating")
             => pc[c] = "suspended"
          /\ pc[c] \in {"suspended", "validating", "done"} => pc'[c] # "start"
          /\ pc[c] \in {"validating", "done"} => pc'[c] # "suspended"
          /\ pc[c] \in {"start", "validating"}
             => /\ pc'[c] # pc[c]
                /\ cancelled' = cancelled
                /\ \A d \in Calls \ {c} :
                      /\ pc'[d] = pc[d]
                      /\ args'[d] = args[d]
                      /\ result'[d] = result[d]]_vars

\* two calls on one token interleaved at their yields: the first returned
\* its outcome, then cancel() reached the second while it was suspended
C21_Witness ==
    /\ Done(1) /\ result[1].tag = "OkSome" /\ issued[1] = "never"
    /\ args[1].token # None /\ args[2].token = args[1].token
    /\ Done(2) /\ issued[2] = "suspended"
    /\ result[2] = CancelledAs("validate_and_echo")

\* C22: with validation on, the input within the size limit and no
\* cancellation observed, a call fails with InvalidInput exactly when its
\* input contains a null byte, and the message of that error is never
\* "Invalid UTF-8 sequence".
C22_OnlyNullByteFails ==
    \A c \in Calls :
        (/\ NotCancelled(c) /\ ValidatesContent(c)
         /\ len(args[c].input) <= LimitOf(c))
        => /\ (result[c].tag = "InvalidInput") <=> contains_nul(args[c].input)
           /\ result[c].tag = "InvalidInput"
              => result[c].error_message = "Input contains null bytes"

\* C23: for every 64-bit max_size and every call that was not cancelled, the
\* input is rejected as too large exactly when its byte length exceeds
\* max_size as a 64-bit value, and the length of a returned outcome is the
\* input's byte length.
C23_LengthNeverWraps ==
    \A c \in Calls :
        (Done(c) /\ args[c].kind = "validate_and_echo"
         /\ ~IsCancelledError(result[c]))
        => /\ (result[c].tag = "InputTooLarge")
              <=> U64_lt(args[c].config.max_input_size, len64(args[c].input))
           /\ result[c].tag = "OkSome"
              => result[c].value.length = len64(args[c].input)

\* C24: a call that fails with OperationCancelled holds a token, and that
\* token's own flag is set: a call without a token is never cancelled
\* whatever tokens are cancelled, and a call is never cancelled by cancel()
\* on a token created apart from its own.
C24_OnlyOwnToken ==
    \A c \in Calls :
        (Done(c) /\ IsCancelledError(result[c]))
        => /\ args[c].token # None
           /\ cancelled[args[c].token]
           /\ issued[c] \in BeforeSecondRead

\* every token but the second call's was cancelled: the call without a
\* token and the call on the other token both returned their outcome
C24_Witness ==
    /\ Done(1) /\ args[1].token = None /\ result[1].tag = "OkSome"
    /\ Done(2) /\ args[2].token # None /\ result[2].tag = "OkSome"
    /\ \A t \in Tokens : cancelled[t] <=> t # args[2].token

====
